---- MODULE Spec2Model ----
(***************************************************************************)
(* A model of slideflow's training core (src/source/slideflow/model.py):   *)
(*   - HyperParameters: construction, validation, model_type, get_dict /   *)
(*     load_dict;                                                          *)
(*   - Model: train() entry, evaluate(), load();                           *)
(*   - _PredictionAndEvaluationCallback driven by the Keras fit loop.      *)
(*                                                                         *)
(* Python values are modelled with their type: a number is a record        *)
(* [t, n, d] (type tag, numerator, denominator), so that isinstance checks *)
(* and float arithmetic are computed, and floats are exact rationals.      *)
(***************************************************************************)
EXTENDS Integers, Sequences, FiniteSets, TLC

(***************************************************************************)
(* Bounds of the model.                                                    *)
(***************************************************************************)
\* At most this many keyword arguments besides loss differ from the defaults.
MaxOverrides == 2
\* The largest epoch number in finetune_epochs.
MaxEpoch == 3
\* The validation losses of a shaped feed (improving, flat, worsening) are
\* integers 0..ShapedMax.
ShapedMax == 4
\* sum(feature_sizes), and the length of a slide's 'input' list, at most
MaxFeatures == 2
\* The number of layers of the trunk (base_model.layers), at most
MaxLayers == 3
\* Presses of "Predict Slide" in one run of the widget.
MaxThreads == 2
\* MIL models dropped on the window in one run of the widget.
MaxDrops == 2

\* Validation losses.
ValSet == {0, 1}
\* Validation accuracies: 0 or 1.
AccSet == {0, 1}
\* Validation losses of a loss function that can be negative
\* (negative_log_likelihood).
SignedSet == {-2, -1, 0}

(***************************************************************************)
(* Python values.                                                          *)
(***************************************************************************)
I(n) == [t |-> "int", n |-> n, d |-> 1]
F(n, d) == [t |-> "float", n |-> n, d |-> d]
B(b) == [t |-> "bool", n |-> IF b THEN 1 ELSE 0, d |-> 1]
\* A scalar finetune_epochs is an int; a list is a list of ints.
EpochInt(n) == [t |-> "int", xs |-> <<n>>]
EpochList(xs) == [t |-> "list", xs |-> xs]

\* isinstance(x, int): bool is a subclass of int.
IsInt(x) == x.t \in {"int", "bool"}
IsFloat(x) == x.t = "float"
IsBool(x) == x.t = "bool"
IsNumber(x) == x.t \in {"int", "bool", "float"}
\* 0 <= x <= 1
InUnit(x) == 0 <= x.n /\ x.n <= x.d
\* float(x)
ToFloat(x) == [t |-> "float", n |-> x.n, d |-> x.d]

PyNone == "<None>"

BALANCE_BY_CATEGORY == "BALANCE_BY_CATEGORY"
BALANCE_BY_PATIENT == "BALANCE_BY_PATIENT"
NO_BALANCE == "NO_BALANCE"

(***************************************************************************)
(* HyperParameters: the class tables.                                      *)
(***************************************************************************)
OptDict == {"Adam", "SGD", "RMSprop", "Adagrad", "Adadelta", "Adamax", "Nadam"}

ModelDict ==
    {"Xception", "VGG16", "VGG19", "ResNet50", "ResNet101", "ResNet152",
     "ResNet50V2", "ResNet101V2", "ResNet152V2", "InceptionV3", "NASNetLarge",
     "InceptionResNetV2", "MobileNet", "MobileNetV2"}

LinearLoss ==
    {"mean_squared_error", "mean_absolute_error", "mean_absolute_percentage_error",
     "mean_squared_logarithmic_error", "squared_hinge", "hinge", "logcosh",
     "negative_log_likelihood"}

\* 'hinge' 'categorical_hinge' has no comma between the two literals in the
\* source: Python concatenates them into the one entry below.
AllLoss ==
    {"mean_squared_error", "mean_absolute_error", "mean_absolute_percentage_error",
     "mean_squared_logarithmic_error", "squared_hinge", "hingecategorical_hinge",
     "logcosh", "huber_loss", "categorical_crossentropy",
     "sparse_categorical_crossentropy", "binary_crossentropy",
     "kullback_leibler_divergence", "poisson", "cosine_proximity",
     "is_categorical_crossentropy", "negative_log_likelihood"}

\* The keyword arguments of __init__ with their defaults.
Defaults ==
    [tile_px |-> I(299), tile_um |-> I(302), finetune_epochs |-> EpochInt(10),
     toplayer_epochs |-> I(0), model |-> "Xception", pooling |-> "max",
     loss |-> "sparse_categorical_crossentropy", learning_rate |-> F(1, 10000),
     learning_rate_decay |-> I(0), learning_rate_decay_steps |-> I(100000),
     batch_size |-> I(16), hidden_layers |-> I(1), hidden_layer_width |-> I(500),
     optimizer |-> "Adam", early_stop |-> B(FALSE), early_stop_patience |-> I(0),
     early_stop_method |-> "loss", balanced_training |-> BALANCE_BY_CATEGORY,
     balanced_validation |-> NO_BALANCE, trainable_layers |-> I(0),
     L2_weight |-> I(0), dropout |-> I(0), augment |-> B(TRUE),
     drop_images |-> B(FALSE)]

ArgNames == DOMAIN Defaults

(***************************************************************************)
(* HyperParameters: the methods.                                           *)
(***************************************************************************)
\* A slip: the linear-loss list is consulted first.
model_type_linearFirst(loss) ==
    IF loss \in LinearLoss THEN "linear"
    ELSE IF loss = "negative_log_likelihood" THEN "cph"
    ELSE "categorical"

\* model_type(): 'cph', 'linear' or 'categorical', from the loss alone.
model_type(loss) ==
    IF loss = "negative_log_likelihood" THEN "cph"
    ELSE IF loss \in LinearLoss THEN "linear"
    ELSE "categorical"

\* The isinstance and membership asserts of __init__.
TypeAsserts(a) ==
    /\ IsInt(a.tile_px)
    /\ IsInt(a.tile_um)
    /\ IsInt(a.toplayer_epochs)
    /\ a.finetune_epochs.t \in {"int", "list"}
    /\ a.model \in ModelDict
    /\ a.pooling \in {"max", "avg", "none"}
    /\ a.loss \in AllLoss
    /\ IsFloat(a.learning_rate)
    /\ IsNumber(a.learning_rate_decay)
    /\ IsInt(a.learning_rate_decay_steps)
    /\ IsInt(a.batch_size)
    /\ IsInt(a.hidden_layers)
    /\ a.optimizer \in OptDict
    /\ IsBool(a.early_stop)
    /\ IsInt(a.early_stop_patience)
    /\ a.early_stop_method \in {"loss", "accuracy"}
    /\ a.balanced_training \in {BALANCE_BY_CATEGORY, BALANCE_BY_PATIENT, NO_BALANCE}
    /\ IsInt(a.hidden_layer_width)
    /\ IsInt(a.trainable_layers)
    /\ IsNumber(a.L2_weight)
    /\ IsNumber(a.dropout)
    /\ IsBool(a.augment)
    /\ IsBool(a.drop_images)

\* A slip: the range of dropout is not asserted.
RangeAsserts_noDropout(a) ==
    /\ InUnit(a.learning_rate_decay)
    /\ InUnit(a.L2_weight)

\* The range asserts of __init__: 0 <= x <= 1.
RangeAsserts(a) ==
    /\ InUnit(a.learning_rate_decay)
    /\ InUnit(a.L2_weight)
    /\ InUnit(a.dropout)

InitAsserts(a) == TypeAsserts(a) /\ RangeAsserts(a)

\* The attribute assignments of __init__: what the object stores.
InitAssign(a) ==
    [a EXCEPT !.finetune_epochs = a.finetune_epochs.xs,
              !.pooling = IF a.pooling # "none" THEN a.pooling ELSE PyNone,
              !.L2_weight = ToFloat(a.L2_weight)]

\* A slip: only the training balance is checked.
validate_trainingOnly(self) ==
    ~ (/\ model_type(self.loss) # "categorical"
       /\ self.balanced_training = BALANCE_BY_CATEGORY)

\* validate(): TRUE when the combination is accepted.
validate(self) ==
    ~ (/\ model_type(self.loss) # "categorical"
       /\ \/ self.balanced_training = BALANCE_BY_CATEGORY
          \/ self.balanced_validation = BALANCE_BY_CATEGORY)

NoObject == [none |-> TRUE]

\* HyperParameters(**a): the object, or the exception raised.
HP_init(a) ==
    IF ~ InitAsserts(a) THEN [obj |-> NoObject, err |-> "AssertionError"]
    ELSE IF ~ validate(InitAssign(a)) THEN [obj |-> NoObject, err |-> "HyperParameterError"]
    ELSE [obj |-> InitAssign(a), err |-> "none"]

\* dir(self) names that are not instance attributes.
ClassNames ==
    {"_OptDict", "_ModelDict", "_LinearLoss", "_AllLoss", "_get_args", "get_opt",
     "get_model", "model_type", "validate", "get_dict", "load_dict"}
Underscored == {"_OptDict", "_ModelDict", "_LinearLoss", "_AllLoss", "_get_args"}
ExcludedArgs == {"get_opt", "get_model", "model_type", "validate", "get_dict", "load_dict"}

get_args(self) ==
    {arg \in (DOMAIN self) \cup ClassNames : arg \notin Underscored /\ arg \notin ExcludedArgs}

get_dict(self) == [arg \in get_args(self) |-> self[arg]]

\* A slip: only attributes the object does not have yet are set.
load_dict_newOnly(self, hp_dict) ==
    [key \in (DOMAIN self) \cup (DOMAIN hp_dict) |->
        IF key \in DOMAIN self THEN self[key] ELSE hp_dict[key]]

\* load_dict: setattr(self, key, value) for every item; setattr never fails here.
load_dict(self, hp_dict) ==
    [key \in (DOMAIN self) \cup (DOMAIN hp_dict) |->
        IF key \in DOMAIN hp_dict THEN hp_dict[key] ELSE self[key]]

(***************************************************************************)
(* The callers' inputs to HyperParameters.                                 *)
(***************************************************************************)
LossInputs == AllLoss \cup LinearLoss \cup {"categorical_hinge", "unknown_loss"}

\* Values a caller passes instead of the default, per keyword argument.
Alternatives ==
    [k \in ArgNames |->
        CASE k = "tile_px" -> {I(0), I(-1), F(299, 1)}
          [] k = "tile_um" -> {I(0), F(302, 1)}
          [] k = "finetune_epochs" -> {EpochList(<<1, 3>>)}
          [] k = "model" -> {"ResNet50", "UnknownNet"}
          [] k = "pooling" -> {"none", "sum"}
          [] k = "learning_rate" -> {F(-1, 10), F(0, 1), I(1)}
          [] k = "L2_weight" -> {F(1, 2), I(2), F(-1, 10)}
          [] k = "dropout" -> {F(1, 2), I(2), F(-1, 10)}
          [] k = "balanced_training" -> {BALANCE_BY_PATIENT, NO_BALANCE, "BY_SLIDE"}
          [] k = "balanced_validation" -> {BALANCE_BY_CATEGORY, "BY_SLIDE"}
          [] k = "early_stop" -> {B(TRUE)}
          [] k = "optimizer" -> {"SGD"}
          [] OTHER -> {}]

\* A second, valid argument list that differs from the defaults in every field.
OtherArgs ==
    [tile_px |-> I(512), tile_um |-> I(604), finetune_epochs |-> EpochList(<<2, 4>>),
     toplayer_epochs |-> I(1), model |-> "VGG16", pooling |-> "avg",
     loss |-> "mean_squared_error", learning_rate |-> F(1, 100),
     learning_rate_decay |-> F(1, 2), learning_rate_decay_steps |-> I(1000),
     batch_size |-> I(32), hidden_layers |-> I(2), hidden_layer_width |-> I(100),
     optimizer |-> "SGD", early_stop |-> B(TRUE), early_stop_patience |-> I(1),
     early_stop_method |-> "accuracy", balanced_training |-> BALANCE_BY_PATIENT,
     balanced_validation |-> BALANCE_BY_PATIENT, trainable_layers |-> I(3),
     L2_weight |-> F(1, 10), dropout |-> F(1, 4), augment |-> B(FALSE),
     drop_images |-> B(TRUE)]

\* Dicts a caller passes to load_dict besides get_dict() of an object: the
\* entries read from a hyperparameters.json, complete or not.
CallerDicts ==
    {[loss |-> l] : l \in {"mean_squared_error", "negative_log_likelihood",
                           "sparse_categorical_crossentropy"}}
        \cup {[balanced_validation |-> BALANCE_BY_CATEGORY],
              [balanced_training |-> NO_BALANCE, balanced_validation |-> NO_BALANCE],
              [get_dict(HP_init(OtherArgs).obj) EXCEPT
                    !.balanced_training = BALANCE_BY_CATEGORY]}

Overrides(a) == Cardinality({k \in ArgNames \ {"loss"} : a[k] # Defaults[k]})

VARIABLES
    pc,             \* where the caller and the controller are: "idle", "warmup",
                    \* "batch", "epoch_end", "done" (train returned),
                    \* "evaluated" (evaluate returned), "raised"
    mdlClass,       \* _model_type of the concrete Model class
    hp,             \* self.hp, a HyperParameters object
    targs,          \* the arguments of the train() call (cb_args)
    model,          \* self.model: "None", "loaded", "built", "resumed"
    files,          \* files written into outdir
    streams,        \* the interleaved data streams built so far
    err,            \* the exception raised, "none" if none
    cb,             \* the _PredictionAndEvaluationCallback object
    stop_training,  \* self.model.stop_training
    kEpoch,         \* the epoch index of Keras' fit loop
    batch,          \* the batch index of Keras' fit loop within the epoch
    checkpoints,    \* N for every directory {name}_epoch{N} in outdir
    feed,           \* how the validation values arrive: "any", "signed", "shaped"
    hist,           \* history: observed values, EMA after each check, epochs run,
                    \* the validation accuracy of the last check when the
                    \* early_stop_method is accuracy
    sidecar,        \* hyperparameters.json and slide_manifest.log: their content
                    \* in outdir, the copies in each checkpoint directory, the
                    \* epochs whose copy was given up with a warning
    shards          \* the slides with an annotation entry, the slides of the
                    \* tfrecords passed to train() and evaluate(), the rows of
                    \* slide_manifest.log, the slides the streams were built over

trVars == <<pc, mdlClass, hp, targs, model, files, streams, err, cb, stop_training,
            kEpoch, batch, checkpoints, feed, hist, sidecar, shards>>

VARIABLES
    ctor,       \* a call of a Model constructor: its arguments, then its outcome
    net         \* a call of _build_model: the object's settings, then the network

buildVars == <<ctor, net>>

VARIABLES
    widget,     \* the MILWidget object and the position of the GUI thread
    threads,    \* the worker threads started by predict_slide
    toasts      \* the toasts on screen

milVars == <<widget, threads, toasts>>

VARIABLES
    hpPc,       \* "args": choosing arguments; "built": __init__ returned or raised;
                \* "loaded": load_dict ran on the second object; "updated":
                \* load_dict ran on the object itself
    hpArgs,     \* the keyword arguments of the constructor call
    hpObj,      \* the constructed object, NoObject when __init__ raised
    hpErr,      \* the exception of __init__, "none" when it returned
    hpType,     \* what hp.model_type() returned, "none" without an object
    hpOther     \* the second object, after load_dict(hpObj.get_dict())

hpVars == <<hpPc, hpArgs, hpObj, hpErr, hpType, hpOther>>

HPInit ==
    /\ hpPc = "args"
    /\ \E l \in LossInputs : hpArgs = [Defaults EXCEPT !.loss = l]
    /\ hpObj = NoObject
    /\ hpErr = "none"
    /\ hpType = "none"
    /\ hpOther = NoObject

\* The caller passes one more keyword argument.
HPSetArg ==
    /\ hpPc = "args"
    /\ Overrides(hpArgs) < MaxOverrides
    /\ \E k \in ArgNames \ {"loss"} :
        /\ hpArgs[k] = Defaults[k]
        /\ \E v \in Alternatives[k] : hpArgs' = [hpArgs EXCEPT ![k] = v]
    /\ UNCHANGED <<hpPc, hpObj, hpErr, hpType, hpOther>>
    /\ UNCHANGED <<trVars, buildVars, milVars>>

\* hp = HyperParameters(**hpArgs)
HPConstruct ==
    /\ hpPc = "args"
    /\ hpPc' = "built"
    /\ hpObj' = HP_init(hpArgs).obj
    /\ hpErr' = HP_init(hpArgs).err
    /\ hpType' = IF HP_init(hpArgs).err = "none"
                 THEN model_type(HP_init(hpArgs).obj.loss) ELSE "none"
    /\ UNCHANGED <<hpArgs, hpOther>>
    /\ UNCHANGED <<trVars, buildVars, milVars>>

\* other = HyperParameters(**o); other.load_dict(hp.get_dict())
HPLoadDict ==
    /\ hpPc = "built"
    /\ hpErr = "none"
    /\ \E o \in {Defaults, OtherArgs} :
        /\ HP_init(o).err = "none"
        /\ hpOther' = load_dict(HP_init(o).obj, get_dict(hpObj))
    /\ hpPc' = "loaded"
    /\ UNCHANGED <<hpArgs, hpObj, hpErr, hpType>>
    /\ UNCHANGED <<trVars, buildVars, milVars>>

\* hp.load_dict(d) with a dict of the caller
HPLoadCaller ==
    /\ hpPc \in {"built", "updated"}
    /\ hpErr = "none"
    /\ \E d \in CallerDicts :
        /\ hpObj' = load_dict(hpObj, d)
        /\ hpType' = model_type(load_dict(hpObj, d).loss)
    /\ hpPc' = "updated"
    /\ UNCHANGED <<hpArgs, hpErr, hpOther>>
    /\ UNCHANGED <<trVars, buildVars, milVars>>

HPNext == HPSetArg \/ HPConstruct \/ HPLoadDict \/ HPLoadCaller

(***************************************************************************)
(* Exact arithmetic on the values the callback computes with (Python       *)
(* floats, modelled as rationals in lowest terms).                         *)
(***************************************************************************)
RECURSIVE Gcd(_, _)
Gcd(a, b) == IF b = 0 THEN a ELSE Gcd(b, a % b)
Abs(x) == IF x < 0 THEN -x ELSE x
Rat(n, d) ==
    LET g == Gcd(Abs(n), Abs(d))
        sgn == IF d < 0 THEN -1 ELSE 1
    IN  [n |-> sgn * (n \div g), d |-> sgn * (d \div g)]
R(n) == [n |-> n, d |-> 1]
RAdd(a, b) == Rat(a.n * b.d + b.n * a.d, a.d * b.d)
RSub(a, b) == Rat(a.n * b.d - b.n * a.d, a.d * b.d)
RMul(a, b) == Rat(a.n * b.n, a.d * b.d)
RLe(a, b) == a.n * b.d <= b.n * a.d
RLt(a, b) == a.n * b.d < b.n * a.d
RECURSIVE SumSeq(_)
SumSeq(xs) == IF xs = <<>> THEN R(0) ELSE RAdd(Head(xs), SumSeq(Tail(xs)))
RECURSIVE MaxSeq(_)
MaxSeq(xs) ==
    IF Len(xs) = 1 THEN xs[1]
    ELSE LET m == MaxSeq(Tail(xs)) IN IF xs[1] >= m THEN xs[1] ELSE m
SeqRange(xs) == {xs[i] : i \in 1..Len(xs)}

\* The initial value of last_ema and of the two snapshots: -1.
MinusOne == R(-1)

\* Truth of a Python bool or int.
Truthy(x) == x.n # 0

(***************************************************************************)
(* _PredictionAndEvaluationCallback.                                       *)
(***************************************************************************)
\* __init__
Callback_init(cb_args) ==
    [early_stop |-> FALSE, last_ema |-> MinusOne, moving_average |-> <<>>,
     ema_two_checks_prior |-> MinusOne, ema_one_check_prior |-> MinusOne,
     epoch_count |-> cb_args.starting_epoch, results |-> {}]

\* The metric names Keras' model.evaluate(return_dict=True) reports: 'loss' and
\* the names of the metrics the model was compiled with.
EvaluateKeys(type, loss) ==
    CASE type = "categorical" -> {"loss", "accuracy"}
      [] type = "linear" -> {"loss", loss}
      [] OTHER -> {"loss", "concordance_index"}

\* A validation check is made at the end of this batch.
CheckDue(cb_args, b) ==
    /\ cb_args.using_validation
    /\ cb_args.validate_on_batch # 0
    /\ b > 0
    /\ b % cb_args.validate_on_batch = 0

\* The value the monitor observes.
early_stop_value(h, keys, val_loss, val_acc) ==
    IF h.early_stop_method = "accuracy" /\ "val_accuracy" \in keys THEN val_acc ELSE val_loss

\* sum(moving_average) / len(moving_average)
SMA(window) == RMul(SumSeq(window), Rat(1, Len(window)))

\* value * (s/(1+n)) + last_ema * (1 - s/(1+n))
EMA(value, last, cb_args) ==
    LET k == Rat(cb_args.ema_smoothing, 1 + cb_args.ema_observations)
    IN  RAdd(RMul(value, k), RMul(last, RSub(R(1), k)))

\* A slip: the moving average is computed whatever the metric.
Smooth_anyMetric(self, h, cb_args, type, value) ==
    LET appended == Append(self.moving_average, value) IN
    IF Len(appended) <= cb_args.ema_observations
    THEN [self EXCEPT !.moving_average = appended]
    ELSE LET popped == Tail(appended) IN
         [self EXCEPT !.moving_average = popped,
                      !.last_ema = IF self.last_ema = MinusOne THEN SMA(popped)
                                   ELSE EMA(value, self.last_ema, cb_args)]

\* The moving-average step: the window and last_ema after the observation.
Smooth(self, h, cb_args, type, value) ==
    LET appended == Append(self.moving_average, value) IN
    IF type # "categorical" /\ h.early_stop_method = "accuracy"
    THEN [self EXCEPT !.moving_average = appended]
    ELSE IF Len(appended) <= cb_args.ema_observations
    THEN [self EXCEPT !.moving_average = appended]
    ELSE LET popped == Tail(appended) IN
         [self EXCEPT !.moving_average = popped,
                      !.last_ema = IF self.last_ema = MinusOne THEN SMA(popped)
                                   ELSE EMA(value, self.last_ema, cb_args)]

\* float(batch)/steps_per_epoch + epoch_count > early_stop_patience
PatienceMet(cb_args, h, b, epoch_count) ==
    b + epoch_count * cb_args.steps_per_epoch > h.early_stop_patience.n * cb_args.steps_per_epoch

\* The comparison of the current EMA with the snapshot of two checks before.
NotImproved(h, last_ema, two_prior) ==
    \/ h.early_stop_method = "accuracy" /\ RLe(last_ema, two_prior)
    \/ h.early_stop_method = "loss" /\ RLe(two_prior, last_ema)

\* A slip: the older snapshot is overwritten with the current EMA.
StopCheck_oneCheckPrior(self, h, cb_args, type, b) ==
    IF type # "categorical" /\ h.early_stop_method = "accuracy" THEN self
    ELSE IF ~ (/\ Truthy(h.early_stop)
               /\ self.last_ema # MinusOne
               /\ PatienceMet(cb_args, h, b, self.epoch_count))
    THEN self
    ELSE IF /\ self.ema_two_checks_prior # MinusOne
            /\ NotImproved(h, self.last_ema, self.ema_two_checks_prior)
    THEN [self EXCEPT !.early_stop = TRUE]
    ELSE [self EXCEPT !.ema_two_checks_prior = self.last_ema,
                      !.ema_one_check_prior = self.last_ema]

\* The early-stop decision, after the moving-average step.
StopCheck(self, h, cb_args, type, b) ==
    IF type # "categorical" /\ h.early_stop_method = "accuracy" THEN self
    ELSE IF ~ (/\ Truthy(h.early_stop)
               /\ self.last_ema # MinusOne
               /\ PatienceMet(cb_args, h, b, self.epoch_count))
    THEN self
    ELSE IF /\ self.ema_two_checks_prior # MinusOne
            /\ NotImproved(h, self.last_ema, self.ema_two_checks_prior)
    THEN [self EXCEPT !.early_stop = TRUE]
    ELSE [self EXCEPT !.ema_two_checks_prior = self.ema_one_check_prior,
                      !.ema_one_check_prior = self.last_ema]

\* on_train_batch_end at a batch where a validation check is due.
on_train_batch_end(self, h, cb_args, type, b, val_loss, val_acc) ==
    LET value == early_stop_value(h, EvaluateKeys(type, h.loss), val_loss, val_acc)
    IN  StopCheck(Smooth(self, h, cb_args, type, R(value)), h, cb_args, type, b)

\* evaluate_model: the entry of the epoch in the results.
evaluate_model(self) ==
    [self EXCEPT !.results = self.results \cup {self.epoch_count}]

\* on_epoch_end: the callback and the checkpoint directories afterwards.
on_epoch_end(self, h, cb_args, ckpts) ==
    LET counted == [self EXCEPT !.epoch_count = self.epoch_count + 1] IN
    IF counted.epoch_count \in SeqRange(h.finetune_epochs)
    THEN [cb |-> IF cb_args.using_validation THEN evaluate_model(counted) ELSE counted,
          ckpts |-> ckpts \cup {counted.epoch_count}]
    ELSE IF counted.early_stop
    THEN [cb |-> evaluate_model(counted), ckpts |-> ckpts]
    ELSE [cb |-> counted, ckpts |-> ckpts]

(***************************************************************************)
(* Model: the controller.                                                  *)
(***************************************************************************)
ModelClasses == {"categorical", "linear", "cph"}

\* A slip: the warmup epochs are left out of the total.
TotalEpochs_noToplayer(h, cb_args) ==
    MaxSeq(h.finetune_epochs) - cb_args.starting_epoch

\* total_epochs of train()
TotalEpochs(h, cb_args) ==
    h.toplayer_epochs.n + (MaxSeq(h.finetune_epochs) - cb_args.starting_epoch)

vars == <<hpVars, trVars, buildVars, milVars>>

NoCallback == [none |-> TRUE]

NoHist == [obs |-> <<>>, acc |-> 0, ema |-> <<>>, snaps |-> 0, fitEpochs |-> 0,
           warmEpochs |-> 0, triggers |-> <<>>, phase |-> "improving"]

\* The hyperparameters train() and the callback read.
FieldsRead == {"loss", "early_stop", "early_stop_method", "early_stop_patience",
               "finetune_epochs", "toplayer_epochs"}

\* The hyperparameters of a training scenario: a constructed object, of which
\* the fields read are kept.
MakeHP(loss, es, method, patience, epochs, toplayer) ==
    LET o == HP_init([Defaults EXCEPT !.loss = loss, !.balanced_training = NO_BALANCE,
                             !.early_stop = B(es), !.early_stop_method = method,
                             !.early_stop_patience = I(patience),
                             !.finetune_epochs = EpochList(epochs),
                             !.toplayer_epochs = I(toplayer)]).obj
    IN  [k \in FieldsRead |-> o[k]]

MakeArgs(val, start, vob, n, s, steps) ==
    [using_validation |-> val, starting_epoch |-> start, validate_on_batch |-> vob,
     ema_observations |-> n, ema_smoothing |-> s, steps_per_epoch |-> steps,
     resume_training |-> FALSE]

TrainInit(h, a, f) ==
    /\ pc = "idle"
    /\ hp = h
    /\ targs = a
    /\ feed = f
    /\ model = "None"
    /\ files = {}
    /\ streams = {}
    /\ err = "none"
    /\ cb = NoCallback
    /\ stop_training = FALSE
    /\ kEpoch = 0
    /\ batch = 0
    /\ checkpoints = {}
    /\ hist = NoHist

\* outdir at construction: hyperparameters.json is the caller's file, written
\* before train() or not at all; faulty says whether file copies can fail.
SidecarInit(hpJson, faulty) ==
    [hpJson |-> hpJson, manifest |-> "absent", faulty |-> faulty, dirs |-> {}, warned |-> {}]

\* _save_manifest: slide_manifest.log is rewritten for the shards of this call.
SaveManifest(sc, dataset) == [sc EXCEPT !.manifest = dataset]

\* How the copies of this checkpoint can go: both succeed, or shutil.copy
\* raises at the first or at the second file.
Faults(sc) == IF sc.faulty THEN {"none", "hyperparameters.json", "slide_manifest.log"}
              ELSE {"none"}

\* A slip: each file is copied in a try block of its own.
CopySidecars_independent(sc, epoch, fault) ==
    LET hpFails == sc.hpJson = "absent" \/ fault = "hyperparameters.json"
        mfFails == sc.manifest = "absent" \/ fault = "slide_manifest.log"
        dir == [epoch |-> epoch,
                hpJson |-> IF hpFails THEN "absent" ELSE sc.hpJson,
                manifest |-> IF mfFails THEN "absent" ELSE sc.manifest]
    IN  [sc EXCEPT !.dirs = @ \cup {dir},
                   !.warned = IF hpFails \/ mfFails THEN @ \cup {epoch} ELSE @]

\* The try block of on_epoch_end: copy hyperparameters.json, then
\* slide_manifest.log; the first failure ends the block with a warning.
CopySidecars(sc, epoch, fault) ==
    LET hpFails == sc.hpJson = "absent" \/ fault = "hyperparameters.json"
        mfFails == sc.manifest = "absent" \/ fault = "slide_manifest.log"
        dir == [epoch |-> epoch,
                hpJson |-> IF hpFails THEN "absent" ELSE sc.hpJson,
                manifest |-> IF hpFails \/ mfFails THEN "absent" ELSE sc.manifest]
    IN  [sc EXCEPT !.dirs = @ \cup {dir},
                   !.warned = IF hpFails \/ mfFails THEN @ \cup {epoch} ELSE @]

\* Of the slides "s1", "s2", "v1", "s1" and "v1" have an annotation entry.
\* annotations and the tfrecords of the calls; nothing written or streamed yet.
ShardsInit(used) ==
    [annotated |-> {"s1", "v1"}, used |-> used, rows |-> {}, streamed |-> {}]

\* The slides of val_tfrecords.
ValidationShards(cb_args) == IF cb_args.using_validation THEN {"v1"} ELSE {}

\* _save_manifest: one row for each tfrecord whose slide is in self.slides.
ManifestRows(sh, train_tfrecords, val_tfrecords) ==
    {<<slide, "training">> : slide \in train_tfrecords \cap sh.annotated}
        \cup {<<slide, "validation">> : slide \in val_tfrecords \cap sh.annotated}

\* sf.io.tfrecords.interleave: a stream over the tfrecords it is given.
Interleave(tfrecords) == tfrecords

\* load(path)
Load ==
    /\ pc = "idle"
    /\ model = "None"
    /\ model' = "loaded"
    /\ UNCHANGED <<pc, mdlClass, hp, targs, files, streams, err, cb, stop_training,
                   kEpoch, batch, checkpoints, feed, hist, sidecar, shards>>
    /\ UNCHANGED <<hpVars, buildVars, milVars>>

\* A slip: the manifest is saved before the model handle is looked at.
Evaluate_manifestFirst ==
    /\ pc \in {"idle", "done"}
    /\ files' = files \cup ({"slide_manifest.log"} \cup
                    IF model = "None" THEN {} ELSE {"results_log.csv"})
    /\ sidecar' = SaveManifest(sidecar, "evaluation")
    /\ shards' = [shards EXCEPT !.rows = ManifestRows(shards, {}, shards.used),
                                !.streamed = IF model = "None" THEN @
                                             ELSE Interleave(shards.used)]
    /\ IF model = "None"
       THEN /\ err' = "UserError"
            /\ pc' = "raised"
            /\ UNCHANGED streams
       ELSE /\ streams' = streams \cup {"eval"}
            /\ pc' = "evaluated"
            /\ UNCHANGED err
    /\ UNCHANGED <<mdlClass, hp, targs, model, cb, stop_training, kEpoch, batch,
                   checkpoints, feed, hist>>
    /\ UNCHANGED <<hpVars, buildVars, milVars>>

\* evaluate(tfrecords), with a non-empty shard list
Evaluate ==
    /\ pc \in {"idle", "done"}
    /\ IF model = "None"
       THEN /\ err' = "UserError"
            /\ pc' = "raised"
            /\ UNCHANGED <<files, streams, sidecar, shards>>
       ELSE /\ files' = files \cup {"slide_manifest.log", "results_log.csv"}
            /\ sidecar' = SaveManifest(sidecar, "evaluation")
            /\ shards' = [shards EXCEPT !.rows = ManifestRows(shards, {}, shards.used),
                                        !.streamed = Interleave(shards.used)]
            /\ streams' = streams \cup {"eval"}
            /\ pc' = "evaluated"
            /\ UNCHANGED err
    /\ UNCHANGED <<mdlClass, hp, targs, model, cb, stop_training, kEpoch, batch,
                   checkpoints, feed, hist>>
    /\ UNCHANGED <<hpVars, buildVars, milVars>>

\* A slip: the model types are compared after the manifest is saved.
TrainEntry_lateCheck ==
    /\ pc = "idle"
    /\ files' = files \cup {"slide_manifest.log"}
    /\ sidecar' = SaveManifest(sidecar, "training")
    /\ shards' = [shards EXCEPT !.rows = ManifestRows(shards, shards.used, ValidationShards(targs)),
                                !.streamed = IF model_type(hp.loss) # mdlClass THEN @
                                             ELSE Interleave(shards.used)]
    /\ IF model_type(hp.loss) # mdlClass
       THEN /\ err' = "ModelError"
            /\ pc' = "raised"
            /\ UNCHANGED <<streams, cb, model>>
       ELSE IF ~ targs.using_validation
       THEN /\ err' = "UnboundLocalError"
            /\ pc' = "raised"
            /\ streams' = streams \cup {"train"}
            /\ UNCHANGED <<cb, model>>
       ELSE /\ streams' = streams \cup {"train", "validation"}
            /\ cb' = Callback_init(targs)
            /\ model' = IF targs.resume_training THEN "resumed" ELSE "built"
            /\ pc' = "warmup"
            /\ UNCHANGED err
    /\ UNCHANGED <<mdlClass, hp, targs, stop_training, kEpoch, batch, checkpoints,
                   feed, hist>>
    /\ UNCHANGED <<hpVars, buildVars, milVars>>

\* train(train_tfrecords, val_tfrecords, ...) up to the build of the model.
TrainEntry ==
    /\ pc = "idle"
    /\ IF model_type(hp.loss) # mdlClass
       THEN /\ err' = "ModelError"
            /\ pc' = "raised"
            /\ UNCHANGED <<files, streams, cb, model, sidecar, shards>>
       ELSE IF ~ targs.using_validation
       THEN \* validation_data is read unbound when cb_args is assembled
            /\ err' = "UnboundLocalError"
            /\ pc' = "raised"
            /\ files' = files \cup {"slide_manifest.log"}
            /\ sidecar' = SaveManifest(sidecar, "training")
            /\ shards' = [shards EXCEPT
                            !.rows = ManifestRows(shards, shards.used, ValidationShards(targs)),
                            !.streamed = Interleave(shards.used)]
            /\ streams' = streams \cup {"train"}
            /\ UNCHANGED <<cb, model>>
       ELSE /\ files' = files \cup {"slide_manifest.log"}
            /\ sidecar' = SaveManifest(sidecar, "training")
            /\ shards' = [shards EXCEPT
                            !.rows = ManifestRows(shards, shards.used, ValidationShards(targs)),
                            !.streamed = Interleave(shards.used)]
            /\ streams' = streams \cup {"train", "validation"}
            /\ cb' = Callback_init(targs)
            /\ model' = IF targs.resume_training THEN "resumed" ELSE "built"
            /\ pc' = "warmup"
            /\ UNCHANGED err
    /\ UNCHANGED <<mdlClass, hp, targs, stop_training, kEpoch, batch, checkpoints,
                   feed, hist>>
    /\ UNCHANGED <<hpVars, buildVars, milVars>>

\* A slip: fit goes on although stop_training is set.
AfterEpoch_ignoresStop(k, stopped) ==
    IF k < TotalEpochs(hp, targs) THEN "batch" ELSE "done"

\* Keras' fit: the next epoch starts, or fit returns and train() with it.
AfterEpoch(k, stopped) ==
    IF ~ stopped /\ k < TotalEpochs(hp, targs) THEN "batch" ELSE "done"

\* _retrain_top_layers when toplayer_epochs is non-zero, then the call of fit.
Warmup ==
    /\ pc = "warmup"
    /\ hist' = [hist EXCEPT !.warmEpochs =
                    IF hp.toplayer_epochs.n # 0 THEN hp.toplayer_epochs.n ELSE 0]
    /\ kEpoch' = hp.toplayer_epochs.n
    /\ batch' = 0
    /\ pc' = AfterEpoch(hp.toplayer_epochs.n, FALSE)
    /\ UNCHANGED <<mdlClass, hp, targs, model, files, streams, err, cb, stop_training,
                   checkpoints, feed, sidecar, shards>>
    /\ UNCHANGED <<hpVars, buildVars, milVars>>

\* The validation losses the next check may see.
NextLosses ==
    IF feed = "any" THEN ValSet
    ELSE IF feed = "signed" THEN SignedSet
    ELSE LET prev == IF hist.obs = <<>> THEN ShapedMax + 1 ELSE hist.obs[Len(hist.obs)] IN
         {v \in 0..ShapedMax :
            CASE hist.phase = "improving" -> v <= prev
              [] hist.phase = "flat" -> v >= prev
              [] OTHER -> v > prev}

NextPhase(v) ==
    IF feed # "shaped" \/ hist.obs = <<>> THEN hist.phase
    ELSE LET prev == hist.obs[Len(hist.obs)] IN
         CASE hist.phase = "improving" -> IF v < prev THEN "improving" ELSE "flat"
           [] hist.phase = "flat" -> IF v = prev THEN "flat" ELSE "worsening"
           [] OTHER -> "worsening"

\* One training step of Keras' fit and the on_train_batch_end that follows it.
TrainBatch ==
    /\ pc = "batch"
    /\ IF CheckDue(targs, batch)
       THEN \E v \in NextLosses : \E acc \in AccSet :
            LET after == on_train_batch_end(cb, hp, targs, mdlClass, batch, v, acc)
                n == Len(hist.obs) + 1
            IN  /\ cb' = after
                /\ stop_training' = after.early_stop
                /\ hist' = [hist EXCEPT
                        !.obs = Append(@, v),
                        !.acc = IF hp.early_stop_method = "accuracy" THEN acc ELSE @,
                        !.ema = Append(@, after.last_ema),
                        !.snaps = IF after.ema_one_check_prior # cb.ema_one_check_prior
                                     \/ after.ema_two_checks_prior # cb.ema_two_checks_prior
                                  THEN @ + 1 ELSE @,
                        !.triggers = IF after.early_stop THEN Append(@, n) ELSE @,
                        !.phase = NextPhase(v)]
       ELSE UNCHANGED <<cb, stop_training, hist>>
    /\ batch' = batch + 1
    /\ pc' = IF stop_training' \/ batch + 1 >= targs.steps_per_epoch
             THEN "epoch_end" ELSE "batch"
    /\ UNCHANGED <<mdlClass, hp, targs, model, files, streams, err, kEpoch,
                   checkpoints, feed, sidecar, shards>>
    /\ UNCHANGED <<hpVars, buildVars, milVars>>

\* A slip: a failed copy ends on_epoch_end, and the run, with the exception.
EpochEnd_copyFatal ==
    /\ pc = "epoch_end"
    /\ LET after == on_epoch_end(cb, hp, targs, checkpoints) IN
        /\ checkpoints' = after.ckpts
        /\ IF after.ckpts # checkpoints
           THEN \E fault \in Faults(sidecar) :
                    sidecar' = CopySidecars(sidecar, after.cb.epoch_count, fault)
           ELSE UNCHANGED sidecar
        /\ IF sidecar'.warned # sidecar.warned
           THEN /\ cb' = [cb EXCEPT !.epoch_count = @ + 1]
                /\ pc' = "raised"
                /\ UNCHANGED <<files, stop_training>>
           ELSE /\ cb' = after.cb
                /\ files' = IF after.cb.results # cb.results
                            THEN files \cup {"results_log.csv"} ELSE files
                /\ stop_training' = after.cb.early_stop
                /\ pc' = AfterEpoch(kEpoch + 1, after.cb.early_stop)
    /\ kEpoch' = kEpoch + 1
    /\ batch' = 0
    /\ hist' = [hist EXCEPT !.fitEpochs = @ + 1]
    /\ UNCHANGED <<mdlClass, hp, targs, model, streams, err, feed, shards>>
    /\ UNCHANGED <<hpVars, buildVars, milVars>>

\* on_epoch_end, then Keras' fit goes on to the next epoch or returns.
EpochEnd ==
    /\ pc = "epoch_end"
    /\ LET after == on_epoch_end(cb, hp, targs, checkpoints) IN
        /\ cb' = after.cb
        /\ checkpoints' = after.ckpts
        /\ IF after.ckpts # checkpoints
           THEN \E fault \in Faults(sidecar) :
                    sidecar' = CopySidecars(sidecar, after.cb.epoch_count, fault)
           ELSE UNCHANGED sidecar
        /\ files' = IF after.cb.results # cb.results
                    THEN files \cup {"results_log.csv"} ELSE files
        /\ stop_training' = after.cb.early_stop
        /\ pc' = AfterEpoch(kEpoch + 1, after.cb.early_stop)
    /\ kEpoch' = kEpoch + 1
    /\ batch' = 0
    /\ hist' = [hist EXCEPT !.fitEpochs = @ + 1]
    /\ UNCHANGED <<mdlClass, hp, targs, model, streams, err, feed, shards>>
    /\ UNCHANGED <<hpVars, buildVars, milVars>>

(***************************************************************************)
(* Model.__init__, LinearModel.__init__, CPHModel.__init__.                 *)
(***************************************************************************)
AnnotatedSlides == {"s1", "v1"}

\* annotations[slide] without an 'input' key
NoKey == -1

\* annotations[slide]['input']: absent, or a list of this length
InputEntries == {NoKey} \cup (0..MaxFeatures)

\* outcome_names: this many names, 0 for None; the labels have one outcome
NameCounts == 0..2

NumOutcomes == 1

Raised(msg) == [err |-> "ModelError", msg |-> msg]
Returned == [err |-> "none", msg |-> "none"]

\* The check of outcome_names against the outcome labels.
CheckOutcomeNames(names) ==
    IF names # 0 /\ names # NumOutcomes THEN Raised("outcome_names") ELSE Returned

\* The slide-level input table and the check of its lengths.
SlideFeatureTable(inputs, num_slide_features) ==
    IF \E slide \in AnnotatedSlides : inputs[slide] = NoKey THEN Raised("input_key")
    ELSE IF \E slide \in AnnotatedSlides : inputs[slide] # num_slide_features
    THEN Raised("input_length")
    ELSE Returned

\* Model._setup_inputs
Model_setup_inputs(inputs, num_slide_features) ==
    IF num_slide_features # 0 THEN SlideFeatureTable(inputs, num_slide_features)
    ELSE Returned

\* A slip: CPHModel keeps the guard of the base class.
CPHModel_setup_inputs_guarded(inputs, num_slide_features) ==
    Model_setup_inputs(inputs, num_slide_features)

\* CPHModel._setup_inputs
CPHModel_setup_inputs(inputs, num_slide_features) ==
    SlideFeatureTable(inputs, num_slide_features)

\* Model.__init__ of the class cls
Model_init(cls, num_slide_features, inputs, names) ==
    IF CheckOutcomeNames(names) # Returned THEN CheckOutcomeNames(names)
    ELSE IF cls = "cph" THEN CPHModel_setup_inputs(inputs, num_slide_features)
    ELSE Model_setup_inputs(inputs, num_slide_features)

\* CPHModel.__init__
CPHModel_init(num_slide_features, inputs, names) ==
    IF Model_init("cph", num_slide_features, inputs, names) # Returned
    THEN Model_init("cph", num_slide_features, inputs, names)
    ELSE IF num_slide_features = 0 THEN Raised("event_input")
    ELSE Returned

\* cls(hp, outdir, annotations, feature_sizes=..., outcome_names=...)
Construct_init(cls, num_slide_features, inputs, names) ==
    IF cls = "cph" THEN CPHModel_init(num_slide_features, inputs, names)
    ELSE Model_init(cls, num_slide_features, inputs, names)

CtorIdle == ctor = [pc |-> "idle"]

NetIdle == net = [pc |-> "idle"]

MILIdle ==
    /\ widget = [pc |-> "idle"]
    /\ threads = <<>>
    /\ toasts = <<>>

CtorInit ==
    \E cls \in {"categorical", "linear", "cph"}, nf \in 0..MaxFeatures,
       inputs \in [AnnotatedSlides -> InputEntries], names \in NameCounts :
        ctor = [pc |-> "args", cls |-> cls, num_slide_features |-> nf,
                inputs |-> inputs, names |-> names, result |-> Returned]

\* The constructor call returns or raises.
Construct ==
    /\ ctor.pc = "args"
    /\ LET r == Construct_init(ctor.cls, ctor.num_slide_features, ctor.inputs, ctor.names)
       IN  ctor' = [ctor EXCEPT !.pc = IF r = Returned THEN "built" ELSE "raised",
                                !.result = r]
    /\ UNCHANGED net
    /\ UNCHANGED <<hpVars, trVars, milVars>>

(***************************************************************************)
(* Model._build_bottom, _freeze_layers, _build_model and                   *)
(* CPHModel._build_model: the network is the set of its inputs, the        *)
(* tensors merged before the hidden layers, and the trainable layers of    *)
(* the trunk (numbered from 1).                                            *)
(***************************************************************************)
\* base_model.layers[:index], as positions 1..total
SliceTo(total, index) ==
    IF index >= 0 THEN 1..(IF index < total THEN index ELSE total)
    ELSE 1..(total + index)

\* freezeIndex of _freeze_layers
FreezeIndex(total, trainable_layers) == total - (trainable_layers - 1)

\* _freeze_layers: the layers of the trunk that stay trainable.
_freeze_layers(total, trainable_layers) ==
    (1..total) \ SliceTo(total, FreezeIndex(total, trainable_layers))

\* _build_bottom, without a pretrained model file: the trainable layers.
_build_bottom(total, trainable_layers) ==
    IF trainable_layers # 0 THEN _freeze_layers(total, trainable_layers) ELSE 1..total

Network(inputs, merged, trainable) ==
    [err |-> "none", inputs |-> inputs, merged |-> merged, trainable |-> trainable]

NoNetwork(error) == [err |-> error, inputs |-> {}, merged |-> {}, trainable |-> {}]

\* Model._build_model (LinearModel._build_model calls it too)
Model_build_model(n) ==
    LET trainable == _build_bottom(n.total_layers, n.trainable_layers) IN
    IF n.num_slide_features # 0 /\ (n.tile_px = 0 \/ n.drop_images)
    THEN Network({"tile_image", "slide_feature_input"}, {"slide_feature_input"}, trainable)
    ELSE Network({"tile_image"}, {"tile_image"}, trainable)

\* CPHModel._build_model
CPHModel_build_model(n) ==
    LET trainable == _build_bottom(n.total_layers, n.trainable_layers) IN
    IF n.num_slide_features # 0 /\ (n.tile_px = 0 \/ n.drop_images)
    THEN IF n.num_slide_features = 1
         THEN NoNetwork("UnboundLocalError")
         ELSE Network({"tile_image", "slide_feature_input", "event_input"},
                      {"slide_feature_input"}, trainable)
    ELSE IF n.num_slide_features # 0 /\ n.num_slide_features > 1
    THEN Network({"tile_image", "slide_feature_input", "event_input"},
                 {"slide_feature_input", "tile_image"}, trainable)
    ELSE Network({"tile_image", "event_input"}, {"tile_image"}, trainable)

\* A constructed object: a CPHModel has the event among its slide features.
NetInit ==
    \E cls \in {"categorical", "linear", "cph"}, nf \in 0..MaxFeatures,
       px \in {0, 299}, drop \in BOOLEAN, total \in 1..MaxLayers,
       k \in 0..MaxLayers :
        /\ cls = "cph" => nf >= 1
        /\ net = [pc |-> "object", cls |-> cls, num_slide_features |-> nf,
                  tile_px |-> px, drop_images |-> drop, total_layers |-> total,
                  trainable_layers |-> k, model |-> NoNetwork("none")]

\* self.model = self._build_model(pretrain='imagenet')
BuildModel ==
    /\ net.pc = "object"
    /\ LET m == IF net.cls = "cph" THEN CPHModel_build_model(net)
                ELSE Model_build_model(net)
       IN  net' = [net EXCEPT !.pc = IF m.err = "none" THEN "built" ELSE "raised",
                              !.model = m]
    /\ UNCHANGED ctor
    /\ UNCHANGED <<hpVars, trVars, milVars>>

(***************************************************************************)
(* MILWidget (src/slideflow/studio/widgets/mil.py): the GUI thread renders *)
(* frames and handles drops; predict_slide starts worker threads that run  *)
(* _predict_slide.                                                         *)
(***************************************************************************)
\* The MIL model directories a user can drop; any other path is not one.
MILPaths == {"A", "B"}

DropPaths == MILPaths \cup {"other"}

_is_mil_model(path) == path \in MILPaths

\* The model handle of the widget.
Handle(w) == <<w.model, w.mil_config, w.encoder, w.normalizer>>

\* MILWidget.__init__; viz.wsi is the slide shown in the window.
MILWidget_init(wsi) ==
    [model |-> "none", mil_config |-> "none", encoder |-> "none",
     normalizer |-> "none", predictions |-> <<>>,
     _generating |-> FALSE, _triggered |-> FALSE, _thread |-> 0, _toast |-> 0,
     message |-> FALSE, wsi |-> wsi, pc |-> "frame", path |-> "none"]

\* threading.Thread(target=self._predict_slide) after start().
NewThread ==
    [pc |-> "start", encoder |-> "unread", normalizer |-> "unread",
     model |-> "unread", mil_config |-> "unread"]

is_alive(t) == t.pc # "done"

Alive == {i \in DOMAIN threads : is_alive(threads[i])}

\* viz.create_toast: the toast is the last of the sequence.
create_toast(ts, title, sticky) ==
    Append(ts, [title |-> title, sticky |-> sticky, done |-> FALSE])

Loaded(ts) == {i \in DOMAIN ts : ts[i].title = "MIL model loaded"}

\* refresh_generating_prediction: the widget and the toasts after it.
refresh_generating_prediction(w, ths, ts) ==
    IF w._thread # 0 /\ ~is_alive(ths[w._thread])
    THEN [w |-> [w EXCEPT !._generating = FALSE, !._triggered = FALSE,
                          !._thread = 0, !.message = FALSE, !._toast = 0],
          ts |-> create_toast(
                    IF w._toast # 0 THEN [ts EXCEPT ![w._toast].done = TRUE] ELSE ts,
                    "Prediction complete.", FALSE)]
    ELSE [w |-> w, ts |-> ts]

\* predict_slide: message, sticky toast, a new thread, started.
predict_slide(w, ths, ts) ==
    [w |-> [w EXCEPT !.message = TRUE, !._toast = Len(ts) + 1,
                     !._thread = Len(ths) + 1],
     ths |-> Append(ths, NewThread),
     ts |-> create_toast(ts, "Generating prediction", TRUE)]

\* The "Predict Slide" button is drawn, and enabled.
ButtonEnabled(w, show) == show /\ w.model # "none" /\ w.wsi

\* __call__: one frame of the GUI thread; pressed is the user's click on
\* "Predict Slide" in this frame.
Render ==
    /\ widget.pc = "frame"
    /\ \E show \in BOOLEAN :
       LET r == IF widget._generating
                THEN refresh_generating_prediction(widget, threads, toasts)
                ELSE [w |-> widget, ts |-> toasts]
       IN  \E pressed \in IF ButtonEnabled(r.w, show) /\ Len(threads) < MaxThreads
                          THEN BOOLEAN ELSE {FALSE} :
            IF pressed
            THEN LET p == predict_slide(r.w, threads, r.ts)
                 IN  /\ widget' = p.w
                     /\ threads' = p.ths
                     /\ toasts' = p.ts
            ELSE /\ widget' = r.w
                 /\ toasts' = r.ts
                 /\ UNCHANGED threads
    /\ UNCHANGED <<hpVars, trVars, buildVars>>

\* drag_and_drop_hook up to build_bag_encoder: the toast, then the encoder
\* and the normalizer are assigned.
DropEncoder ==
    /\ widget.pc = "frame"
    /\ Cardinality(Loaded(toasts)) < MaxDrops
    /\ \E path \in DropPaths :
        IF _is_mil_model(path)
        THEN /\ toasts' = create_toast(toasts, "MIL model loaded", FALSE)
             /\ widget' = [widget EXCEPT !.encoder = path, !.normalizer = path,
                                         !.pc = "load_model_weights", !.path = path]
        ELSE UNCHANGED <<widget, toasts>>
    /\ UNCHANGED threads
    /\ UNCHANGED <<hpVars, trVars, buildVars>>

\* drag_and_drop_hook from load_model_weights: the model and its
\* configuration are assigned, and the hook returns.
DropModel ==
    /\ widget.pc = "load_model_weights"
    /\ widget' = [widget EXCEPT !.model = widget.path, !.mil_config = widget.path,
                                !.pc = "frame", !.path = "none"]
    /\ UNCHANGED <<threads, toasts>>
    /\ UNCHANGED <<hpVars, trVars, buildVars>>

\* _predict_slide, first statements: the worker sets the flags.
WorkerStart(i) ==
    /\ threads[i].pc = "start"
    /\ widget' = [widget EXCEPT !._generating = TRUE, !._triggered = TRUE]
    /\ threads' = [threads EXCEPT ![i].pc = "encode"]
    /\ UNCHANGED toasts
    /\ UNCHANGED <<hpVars, trVars, buildVars>>

\* _predict_slide: self.encoder(viz.wsi, normalizer=self.normalizer).
WorkerEncode(i) ==
    /\ threads[i].pc = "encode"
    /\ threads' = [threads EXCEPT ![i].pc = "predict",
                                  ![i].encoder = widget.encoder,
                                  ![i].normalizer = widget.normalizer]
    /\ UNCHANGED <<widget, toasts>>
    /\ UNCHANGED <<hpVars, trVars, buildVars>>

\* _predict_slide: the prediction with self.mil_config and self.model on the
\* bags of the encoder; the thread ends.
WorkerPredict(i) ==
    /\ threads[i].pc = "predict"
    /\ threads' = [threads EXCEPT ![i].pc = "done",
                                  ![i].model = widget.model,
                                  ![i].mil_config = widget.mil_config]
    /\ widget' = [widget EXCEPT !.predictions = <<threads[i].encoder, widget.model>>]
    /\ UNCHANGED toasts
    /\ UNCHANGED <<hpVars, trVars, buildVars>>

Worker == \E i \in DOMAIN threads : WorkerStart(i) \/ WorkerEncode(i) \/ WorkerPredict(i)

MILInit ==
    /\ \E wsi \in BOOLEAN : widget = MILWidget_init(wsi)
    /\ threads = <<>>
    /\ toasts = <<>>

(***************************************************************************)
(* Specifications.                                                         *)
(***************************************************************************)
HPIdle ==
    /\ hpPc = "idle"
    /\ hpArgs = NoObject
    /\ hpObj = NoObject
    /\ hpErr = "none"
    /\ hpType = "none"
    /\ hpOther = NoObject

Losses == {"sparse_categorical_crossentropy", "mean_squared_error", "negative_log_likelihood"}

\* Scenarios that exercise the controller: every pairing of Model class and
\* loss, checkpoint schedules, warmup, resumed epoch counts, no validation.
ControllerScenarios ==
    \E c \in ModelClasses, l \in Losses, es \in BOOLEAN, top \in {0, 1},
       epochs \in {<<MaxEpoch>>, <<1, MaxEpoch>>, <<2>>},
       val \in BOOLEAN, start \in {0, 1, MaxEpoch + 1} :
        /\ mdlClass = c
        /\ TrainInit(MakeHP(l, es, "loss", 0, epochs, top),
                     MakeArgs(val, start, 1, 1, 1, 3), "any")
        /\ sidecar = SidecarInit("hp", FALSE)
        /\ shards = ShardsInit({"s1"})

\* Scenarios that exercise the early-stopping monitor.
MonitorScenarios ==
    \E l \in {"sparse_categorical_crossentropy", "mean_squared_error"},
       es \in BOOLEAN, method \in {"loss", "accuracy"}, patience \in 0..2,
       vob \in 0..2, n \in 1..2, s \in 1..2 :
        /\ mdlClass = model_type(l)
        /\ TrainInit(MakeHP(l, es, method, patience, <<MaxEpoch>>, 0),
                     MakeArgs(TRUE, 0, vob, n, s, 3), "any")
        /\ sidecar = SidecarInit("hp", FALSE)
        /\ shards = ShardsInit({"s1"})

\* Scenarios of the monitor with a loss that can be negative.
SignedScenarios ==
    \E l \in {"negative_log_likelihood"}, patience \in 0..1, n \in 1..2, s \in 1..2 :
        /\ mdlClass = model_type(l)
        /\ TrainInit(MakeHP(l, TRUE, "loss", patience, <<MaxEpoch>>, 0),
                     MakeArgs(TRUE, 0, 1, n, s, 3), "signed")
        /\ sidecar = SidecarInit("hp", FALSE)
        /\ shards = ShardsInit({"s1"})

\* Scenarios of checkpointing: hyperparameters.json in outdir or not, copies
\* that can fail or not, with and without early stop.
CheckpointScenarios ==
    \E es \in BOOLEAN, epochs \in {<<1, MaxEpoch>>, <<2>>}, start \in {0, 1},
       hpJson \in {"hp", "absent"}, faulty \in BOOLEAN, used \in {{"s1"}, {"s1", "s2"}} :
        /\ mdlClass = "categorical"
        /\ TrainInit(MakeHP("sparse_categorical_crossentropy", es, "loss", 0, epochs, 0),
                     MakeArgs(TRUE, start, 1, 1, 1, 3), "any")
        /\ sidecar = SidecarInit(hpJson, faulty)
        /\ shards = ShardsInit(used)

\* Scenarios of train() with resume_training: a saved model is loaded.
ResumeScenarios ==
    \E top \in {0, 1}, start \in {0, 1} :
        /\ mdlClass = "categorical"
        /\ TrainInit(MakeHP("sparse_categorical_crossentropy", FALSE, "loss", 0, <<2>>, top),
                     [MakeArgs(TRUE, start, 1, 1, 1, 3) EXCEPT !.resume_training = TRUE],
                     "any")
        /\ sidecar = SidecarInit("hp", FALSE)
        /\ shards = ShardsInit({"s1"})

\* The controller and the callback, over the families of scenarios.
Init ==
    /\ HPIdle
    /\ CtorIdle
    /\ NetIdle
    /\ MILIdle
    /\ \/ ControllerScenarios
       \/ MonitorScenarios
       \/ SignedScenarios
       \/ CheckpointScenarios
       \/ ResumeScenarios

Next == Load \/ Evaluate \/ TrainEntry \/ Warmup \/ TrainBatch \/ EpochEnd

Spec == Init /\ [][Next]_vars

\* The monitor with ema_observations=5, ema_smoothing=2, early_stop_patience=0
\* and a validation loss that improves strictly, stays flat, then worsens:
\* three epochs of five steps, validated after every batch.
InitShaped ==
    /\ HPIdle
    /\ CtorIdle
    /\ NetIdle
    /\ MILIdle
    /\ mdlClass = "categorical"
    /\ TrainInit(MakeHP("sparse_categorical_crossentropy", TRUE, "loss", 0, <<3>>, 0),
                 MakeArgs(TRUE, 0, 1, 5, 2, 5), "shaped")
    /\ sidecar = SidecarInit("hp", FALSE)
    /\ shards = ShardsInit({"s1"})

SpecShaped == InitShaped /\ [][Next]_vars

\* HyperParameters alone.
InitHP ==
    /\ HPInit
    /\ CtorIdle
    /\ NetIdle
    /\ MILIdle
    /\ mdlClass = "categorical"
    /\ TrainInit(NoObject, MakeArgs(FALSE, 0, 0, 1, 1, 1), "any")
    /\ sidecar = SidecarInit("hp", FALSE)
    /\ shards = ShardsInit({"s1"})

SpecHP == InitHP /\ [][HPNext]_vars

\* The training state of a specification that does not train.
TrainIdle ==
    /\ mdlClass = "categorical"
    /\ TrainInit(NoObject, MakeArgs(FALSE, 0, 0, 1, 1, 1), "any")
    /\ sidecar = SidecarInit("hp", FALSE)
    /\ shards = ShardsInit({"s1"})

\* The constructors alone.
InitBuild ==
    /\ CtorInit
    /\ NetIdle
    /\ HPIdle
    /\ MILIdle
    /\ TrainIdle

NextBuild == Construct

SpecBuild == InitBuild /\ [][NextBuild]_vars

\* The assembly of the network alone.
InitNet ==
    /\ NetInit
    /\ CtorIdle
    /\ HPIdle
    /\ MILIdle
    /\ TrainIdle

NextNet == BuildModel

SpecNet == InitNet /\ [][NextNet]_vars

\* The MIL widget alone.
InitMIL ==
    /\ MILInit
    /\ HPIdle
    /\ CtorIdle
    /\ NetIdle
    /\ TrainIdle

NextMIL == Render \/ DropEncoder \/ DropModel \/ Worker

SpecMIL == InitMIL /\ [][NextMIL]_vars

\* The widget when frames keep being rendered, a drop that has begun
\* completes, and every started thread is scheduled until it ends.
SpecMILFair ==
    /\ SpecMIL
    /\ WF_vars(Render)
    /\ WF_vars(DropModel)
    /\ WF_vars(Worker)

(***************************************************************************)
(* Claims about the callback and the controller, checked under Spec.       *)
(***************************************************************************)
FinetuneEpochs == SeqRange(hp.finetune_epochs)

\* train() got past its entry check and built the callback.
Training == cb # NoCallback

\* C1 as stated: a validation check sets the early-stop flag only if
\* hp.early_stop is true, batch/steps_per_epoch + epoch_count exceeds
\* early_stop_patience, two EMA snapshots were taken before, and the EMA is not
\* better than the snapshot of two checks before, the EMA computed at that
\* check (loss: >=, accuracy: <=).
C1_Original ==
    [][(pc = "batch" /\ ~ cb.early_stop /\ cb'.early_stop) =>
        /\ Truthy(hp.early_stop)
        /\ RLt(R(hp.early_stop_patience.n),
               RAdd(Rat(batch, targs.steps_per_epoch), R(cb.epoch_count)))
        /\ hist.snaps >= 2
        /\ Len(hist.ema) >= 2
        /\ LET prior == hist.ema[Len(hist.ema) - 1] IN
            /\ hp.early_stop_method = "loss" => RLe(prior, cb'.last_ema)
            /\ hp.early_stop_method = "accuracy" => RLe(cb'.last_ema, prior)]_vars

\* A check at which the comparison with the EMA of two checks before fails.
Fails(i) ==
    /\ i >= 3
    /\ hist.ema[i - 2] # MinusOne
    /\ RLe(hist.ema[i - 2], hist.ema[i])

\* C2 (under SpecShaped): with ema_observations=5, ema_smoothing=2,
\* early_stop_patience=0 and a loss that improves strictly, stays flat, then
\* worsens, early stop is triggered at most once, at exactly the first check
\* whose EMA is not below the EMA of two checks before, and never within the
\* first ema_observations checks.
C2_ShapedFeedStopsOnce ==
    Training =>
        /\ Len(hist.triggers) <= 1
        /\ \A i \in 1..Len(hist.ema) :
            (i \in SeqRange(hist.triggers)) <=> (Fails(i) /\ \A j \in 1..(i - 1) : ~ Fails(j))
        /\ \A i \in SeqRange(hist.triggers) : i > targs.ema_observations

C2_Witness ==
    /\ pc = "done"
    /\ hist.obs[1] > hist.obs[2]
    /\ hist.phase = "worsening"
    /\ Len(hist.triggers) = 1
    /\ cb.early_stop

\* C3 as stated: after on_epoch_end, every finished epoch that is a member of
\* finetune_epochs, and the epoch in which early stop was triggered, has its
\* checkpoint directory {name}_epoch{N}.
C3_Original ==
    (Training /\ pc \in {"batch", "done"}) =>
        \A e \in (targs.starting_epoch + 1)..cb.epoch_count :
            (e \in FinetuneEpochs \/ (cb.early_stop /\ e = cb.epoch_count))
                => e \in checkpoints

CheckpointEpochs == {e \in FinetuneEpochs : e > targs.starting_epoch}

MaxFinetune == MaxSeq(hp.finetune_epochs)

\* C4 as stated: a train() run with validation data and no early stop writes
\* the checkpoints of exactly the e in finetune_epochs with e > starting_epoch,
\* runs max(finetune_epochs) - starting_epoch fine-tune epochs, and returns
\* results with an entry for exactly those e.
C4_Original ==
    (Training /\ pc = "done" /\ targs.using_validation /\ ~ cb.early_stop) =>
        /\ checkpoints = CheckpointEpochs
        /\ hist.fitEpochs = MaxFinetune - targs.starting_epoch
        /\ cb.results = CheckpointEpochs

\* C4 amended: the same, with max(0, max(finetune_epochs) - starting_epoch)
\* fine-tune epochs: none when starting_epoch is not below the last epoch.
C4_CheckpointsAndEpochs ==
    (Training /\ pc = "done" /\ targs.using_validation /\ ~ cb.early_stop) =>
        /\ checkpoints = CheckpointEpochs
        /\ hist.fitEpochs = IF MaxFinetune > targs.starting_epoch
                            THEN MaxFinetune - targs.starting_epoch ELSE 0
        /\ cb.results = CheckpointEpochs

C4_Witness ==
    /\ pc = "done"
    /\ Training
    /\ ~ cb.early_stop
    /\ hp.toplayer_epochs.n = 1
    /\ hist.warmEpochs = 1
    /\ targs.starting_epoch = 1
    /\ hp.finetune_epochs = <<1, MaxEpoch>>
    /\ checkpoints = {MaxEpoch}
    /\ cb.results = {MaxEpoch}
    /\ hist.fitEpochs = MaxEpoch - 1

\* C5: train() on a Model whose _model_type differs from hp.model_type()
\* raises ModelError and leaves the manifest unwritten, the streams unbuilt
\* and the model handle as it was; a run that got further has matching types.
C5_TypeMismatchRaisesFirst ==
    [][/\ (pc = "idle" /\ pc' \notin {"idle", "evaluated"} /\ err' # "UserError"
            /\ model_type(hp.loss) # mdlClass)
            => err' = "ModelError"
       /\ err' = "ModelError"
            => /\ model_type(hp.loss) # mdlClass
               /\ UNCHANGED <<files, streams, model, cb>>
               /\ "slide_manifest.log" \notin files'
       /\ Training' => model_type(hp.loss) = mdlClass]_vars

C5_Witness ==
    /\ pc = "raised"
    /\ err = "ModelError"
    /\ mdlClass = "linear"
    /\ hp.loss = "negative_log_likelihood"
    /\ model = "loaded"
    /\ files = {}

\* C6: evaluate() with the model handle unset raises UserError and writes
\* neither slide_manifest.log nor the results log; evaluate() returns only
\* with a model handle.
C6_EvaluateNeedsModel ==
    [][/\ (err' = "UserError" /\ err # "UserError")
            => /\ model = "None"
               /\ pc' = "raised"
               /\ UNCHANGED <<files, streams, model>>
       /\ (pc \in {"idle", "done"} /\ pc' \in {"evaluated", "raised"} /\ model = "None"
            /\ err' \notin {"ModelError", "UnboundLocalError"})
            => err' = "UserError" /\ files' \cap {"slide_manifest.log", "results_log.csv"} = {}
       /\ pc' = "evaluated" => model # "None"]_vars

C6_Witness ==
    /\ pc = "raised"
    /\ err = "UserError"
    /\ model = "None"
    /\ files = {}

\* accuracy is asked for, and the model type has no accuracy
InvalidMetric == mdlClass # "categorical" /\ hp.early_stop_method = "accuracy"

\* C11: with early_stop_method accuracy and a model type other than
\* categorical the monitor only logs: last_ema and both snapshots stay at
\* their initial -1 (no SMA, no EMA, no value derived from the loss), the
\* early-stop flag is never set and stop_training is never requested.
C11_InvalidMetricLogsOnly ==
    (Training /\ InvalidMetric) =>
        /\ cb.last_ema = MinusOne
        /\ cb.ema_one_check_prior = MinusOne
        /\ cb.ema_two_checks_prior = MinusOne
        /\ \A i \in 1..Len(hist.ema) : hist.ema[i] = MinusOne
        /\ ~ cb.early_stop
        /\ ~ stop_training
        /\ hist.triggers = <<>>

C11_Witness ==
    /\ pc = "done"
    /\ Training
    /\ InvalidMetric
    /\ Truthy(hp.early_stop)
    /\ targs.ema_observations = 1
    /\ Len(hist.obs) >= 4
    /\ hist.fitEpochs = MaxEpoch

\* The checkpoint directory of an epoch.
DirOf(sc, e) == CHOOSE d \in sc.dirs : d.epoch = e

\* on_epoch_end has just written the checkpoint of epoch e.
Checkpointed(e) == pc = "epoch_end" /\ e \notin checkpoints /\ e \in checkpoints'

\* C12 as stated: when a checkpoint epoch is reached, its directory holds the
\* weights and copies of hyperparameters.json and slide_manifest.log with the
\* content these files have in outdir at that moment.
C12_Original ==
    [][\A e \in FinetuneEpochs : Checkpointed(e) =>
        /\ \E d \in sidecar'.dirs : d.epoch = e
        /\ DirOf(sidecar', e).hpJson = sidecar.hpJson
        /\ DirOf(sidecar', e).hpJson # "absent"
        /\ DirOf(sidecar', e).manifest = sidecar.manifest
        /\ DirOf(sidecar', e).manifest # "absent"]_vars

\* C12 amended: the directory always holds the weights; every sidecar file it
\* holds has the content of the file in outdir at that moment; both are there
\* unless a copy failed, which is warned about; slide_manifest.log is never
\* there without hyperparameters.json; later writes to outdir leave it alone.
C12_SidecarCopies ==
    [][/\ \A e \in FinetuneEpochs : Checkpointed(e) =>
            /\ \E d \in sidecar'.dirs : d.epoch = e
            /\ LET d == DirOf(sidecar', e) IN
                /\ d.hpJson \in {sidecar.hpJson, "absent"}
                /\ d.manifest \in {sidecar.manifest, "absent"}
                /\ sidecar.manifest = "training"
                /\ e \notin sidecar'.warned
                    => (d.hpJson = sidecar.hpJson /\ d.manifest = sidecar.manifest
                        /\ d.hpJson # "absent")
                /\ d.manifest # "absent" => d.hpJson # "absent"
                /\ e \in sidecar'.warned
                    => (d.manifest = "absent" /\ (sidecar.hpJson = "absent" => d.hpJson = "absent"))
       /\ sidecar.dirs \subseteq sidecar'.dirs
       /\ {d.epoch : d \in sidecar'.dirs} = checkpoints']_vars

C12_Witness ==
    /\ pc = "evaluated"
    /\ checkpoints = {1, MaxEpoch}
    /\ sidecar.manifest = "evaluation"
    /\ sidecar.warned = {1}
    /\ DirOf(sidecar, 1) = [epoch |-> 1, hpJson |-> "hp", manifest |-> "absent"]
    /\ DirOf(sidecar, MaxEpoch) = [epoch |-> MaxEpoch, hpJson |-> "hp", manifest |-> "training"]

\* C13: a failed copy of hyperparameters.json or slide_manifest.log into the
\* checkpoint directory is only warned about: the weights are kept, the
\* evaluation of the epoch runs and is recorded, no exception leaves
\* on_epoch_end, and fit goes on exactly as after a checkpoint whose copies
\* succeeded, with the next epoch when there is one.
C13_CopyFailureIsWarning ==
    [][\A e \in FinetuneEpochs : (Checkpointed(e) /\ e \in sidecar'.warned) =>
        /\ e \in checkpoints'
        /\ e \in cb'.results
        /\ "results_log.csv" \in files'
        /\ err' = "none"
        /\ cb'.epoch_count = e
        /\ pc' = IF cb.early_stop \/ kEpoch + 1 >= TotalEpochs(hp, targs)
                 THEN "done" ELSE "batch"
        /\ (e < MaxFinetune /\ ~ cb.early_stop) => (pc' = "batch" /\ kEpoch' = kEpoch + 1)]_vars

C13_Witness ==
    /\ pc = "done"
    /\ ~ cb.early_stop
    /\ sidecar.faulty
    /\ sidecar.hpJson = "hp"
    /\ sidecar.warned = {1, MaxEpoch}
    /\ checkpoints = {1, MaxEpoch}
    /\ cb.results = {1, MaxEpoch}
    /\ DirOf(sidecar, 1).hpJson = "hp"
    /\ DirOf(sidecar, MaxEpoch).hpJson = "absent"

\* A CPHModel constructor call without slide-level feature input: no
\* feature_sizes, or a slide whose annotation has no 'input' entry.
NoFeatureInput ==
    /\ ctor.pc \in {"built", "raised"}
    /\ ctor.cls = "cph"
    /\ \/ ctor.num_slide_features = 0
       \/ \E slide \in AnnotatedSlides : ctor.inputs[slide] = NoKey

\* C14 as stated: constructing a CPH model (with fitting outcome_names)
\* without slide-level feature input raises ModelError with a message that
\* names the missing input: the event input, or the 'input' key.
C14_Original ==
    (NoFeatureInput /\ ctor.names \in {0, NumOutcomes}) =>
        /\ ctor.pc = "raised"
        /\ ctor.result \in {Raised("event_input"), Raised("input_key")}

\* C14 amended: the constructor raises ModelError; the message is the one
\* about the event input exactly when outcome_names fits, feature_sizes is
\* missing and every slide has an empty 'input' list; a missing 'input' key
\* gives the message about the 'input' key, a non-empty 'input' without
\* feature_sizes the message about the length of the input.
C14_NoFeatureInputRaises ==
    NoFeatureInput =>
        /\ ctor.pc = "raised"
        /\ ctor.result.err = "ModelError"
        /\ ctor.result.msg \in {"outcome_names", "input_key", "input_length", "event_input"}
        /\ ctor.result.msg = "outcome_names" <=> ctor.names \notin {0, NumOutcomes}
        /\ ctor.result.msg = "event_input"
            <=> /\ ctor.names \in {0, NumOutcomes}
                /\ ctor.num_slide_features = 0
                /\ \A slide \in AnnotatedSlides : ctor.inputs[slide] = 0
        /\ ctor.result.msg = "input_key"
            <=> /\ ctor.names \in {0, NumOutcomes}
                /\ \E slide \in AnnotatedSlides : ctor.inputs[slide] = NoKey
        /\ ctor.result.msg = "input_length"
            => \A slide \in AnnotatedSlides : ctor.inputs[slide] # NoKey

C14_Witness ==
    /\ NoFeatureInput
    /\ ctor.num_slide_features = 0
    /\ ctor.names = 0
    /\ \A slide \in AnnotatedSlides : ctor.inputs[slide] = 1
    /\ ctor.result = Raised("input_length")

\* train() or evaluate() got past its entry checks with the tfrecords of a
\* slide that has no annotation entry.
RanWithUnannotated ==
    /\ pc \in {"warmup", "batch", "epoch_end", "done", "evaluated"}
    /\ ~ (shards.used \subseteq shards.annotated)

\* C15 as stated: a train() or evaluate() call whose tfrecords reference a
\* slide without annotation entry fails with ModelError; the run never goes
\* on with the slide left out of the manifest.
C15_Original ==
    /\ RanWithUnannotated => err = "ModelError"
    /\ \A slide \in shards.used :
        (shards.rows # {} /\ err # "ModelError") => \E row \in shards.rows : row[1] = slide

\* The last k observations, in arrival order.
LastObs(k) ==
    LET len == Len(hist.obs)
        from == IF len > k THEN len - k ELSE 0
    IN  [i \in 1..(len - from) |-> R(hist.obs[from + i])]

\* C18 as stated: after every validation check the window holds at most
\* ema_observations values, the most recent ones in arrival order, whatever
\* the model type and the early_stop_method.
C18_Original ==
    Training =>
        /\ Len(cb.moving_average) <= targs.ema_observations
        /\ cb.moving_average = LastObs(targs.ema_observations)

\* The observations i-n+1..i as the window holds them.
WindowAt(i) ==
    [j \in 1..targs.ema_observations |-> R(hist.obs[i - targs.ema_observations + j])]

\* C19 as stated: the first ema_observations observations leave last_ema
\* uninitialized (-1), the observation after them seeds last_ema with the
\* simple moving average of the window, and every later observation applies
\* value*(a/(1+n)) + ema_prev*(1 - a/(1+n)).
C19_Original ==
    Training =>
        \A i \in 1..Len(hist.ema) :
            /\ i <= targs.ema_observations => hist.ema[i] = MinusOne
            /\ i = targs.ema_observations + 1 => hist.ema[i] = SMA(WindowAt(i))
            /\ i > targs.ema_observations + 1 =>
                    hist.ema[i] = EMA(R(hist.obs[i]), hist.ema[i - 1], targs)

\* C20: the early-stop flag, once set, stays set; the step that sets it ends
\* the epoch, the on_epoch_end that follows records exactly one evaluation,
\* under the number of the epoch the stop occurred in, and fit returns
\* without another batch or epoch.
C20_EarlyStopIsTerminal ==
    [][/\ (Training /\ cb.early_stop) => (Training' /\ cb'.early_stop)
       /\ (pc = "batch" /\ ~ cb.early_stop /\ cb'.early_stop)
            => (pc' = "epoch_end" /\ stop_training')
       /\ (Training /\ cb.early_stop /\ pc = "epoch_end")
            => /\ pc' = "done"
               /\ cb.epoch_count + 1 \notin cb.results
               /\ cb'.results = cb.results \cup {cb.epoch_count + 1}
               /\ cb'.epoch_count = cb.epoch_count + 1
       /\ (Training /\ cb.early_stop /\ pc # "epoch_end")
            => /\ pc \in {"done", "evaluated"} /\ pc' \in {"done", "evaluated"}
               /\ cb' = cb
               /\ UNCHANGED <<kEpoch, batch, hist, checkpoints>>]_vars

C20_Witness ==
    /\ pc = "evaluated"
    /\ Training
    /\ cb.early_stop
    /\ cb.epoch_count = 2
    /\ cb.results = {2}
    /\ hist.fitEpochs = 2
    /\ MaxFinetune = MaxEpoch

(***************************************************************************)
(* Claims about HyperParameters, checked under SpecHP.                     *)
(***************************************************************************)
HPReturned == hpPc \in {"built", "loaded"}

ByCategory(a) ==
    \/ a.balanced_training = BALANCE_BY_CATEGORY
    \/ a.balanced_validation = BALANCE_BY_CATEGORY

\* C7: a constructor call with by-category balancing (training, also when left
\* at its default, or validation) and a loss whose model type is not
\* categorical raises and yields no object; the error is HyperParameterError
\* whenever every assert passed, AssertionError otherwise.
C7_ByCategoryNeedsCategorical ==
    (HPReturned /\ ByCategory(hpArgs) /\ model_type(hpArgs.loss) # "categorical")
        => /\ hpObj = NoObject
           /\ hpErr = IF InitAsserts(hpArgs) THEN "HyperParameterError" ELSE "AssertionError"

C7_Witness ==
    /\ hpPc = "built"
    /\ hpArgs.balanced_training = NO_BALANCE
    /\ hpArgs.balanced_validation = BALANCE_BY_CATEGORY
    /\ model_type(hpArgs.loss) = "linear"
    /\ hpErr = "HyperParameterError"

\* C8 as stated: model_type() returns linear for every loss of the linear-loss
\* set, survival (cph) for negative_log_likelihood, categorical otherwise.
C8_Original ==
    (HPReturned /\ hpErr = "none")
        => /\ hpObj.loss \in LinearLoss => hpType = "linear"
           /\ hpObj.loss = "negative_log_likelihood" => hpType = "cph"
           /\ hpObj.loss \notin LinearLoss \cup {"negative_log_likelihood"}
                => hpType = "categorical"

\* C8 amended: model_type() is a function of the loss id alone: cph for
\* negative_log_likelihood (although the linear-loss set lists it), linear for
\* every other loss of the linear-loss set, categorical for any other loss.
C8_ModelTypeByLoss ==
    (HPReturned /\ hpErr = "none")
        => /\ hpObj.loss = "negative_log_likelihood" => hpType = "cph"
           /\ hpObj.loss \in LinearLoss \ {"negative_log_likelihood"} => hpType = "linear"
           /\ hpObj.loss \notin LinearLoss => hpType = "categorical"

C8_Witness ==
    /\ hpPc = "built"
    /\ hpObj # NoObject
    /\ hpArgs.loss = "negative_log_likelihood"
    /\ hpType = "cph"

\* C9: after other.load_dict(hp.get_dict()), other.get_dict() equals
\* hp.get_dict(), which holds every constructor field, and every field of other
\* has hp's stored value (pooling None, finetune_epochs as a list).
C9_DictRoundTrip ==
    hpPc = "loaded"
        => /\ get_dict(hpOther) = get_dict(hpObj)
           /\ DOMAIN get_dict(hpObj) = ArgNames
           /\ \A k \in ArgNames : hpOther[k] = hpObj[k]

C9_Witness ==
    /\ hpPc = "loaded"
    /\ hpArgs.pooling = "none"
    /\ hpArgs.finetune_epochs = EpochInt(10)
    /\ hpOther.pooling = PyNone
    /\ hpOther.finetune_epochs = <<10>>

IsPositive(x) == x.n > 0

\* C10 as stated: the constructor fails whenever tile_px or tile_um is not a
\* positive integer, the architecture or the loss is unsupported, learning_rate
\* is not a positive float, or L2_weight or dropout is outside [0,1].
C10_Original ==
    (/\ HPReturned
     /\ \/ ~ (IsInt(hpArgs.tile_px) /\ IsPositive(hpArgs.tile_px))
        \/ ~ (IsInt(hpArgs.tile_um) /\ IsPositive(hpArgs.tile_um))
        \/ hpArgs.model \notin ModelDict
        \/ hpArgs.loss \notin AllLoss
        \/ ~ (IsFloat(hpArgs.learning_rate) /\ IsPositive(hpArgs.learning_rate))
        \/ ~ InUnit(hpArgs.L2_weight)
        \/ ~ InUnit(hpArgs.dropout))
        => hpErr # "none"

\* C10 amended: the constructor fails with AssertionError, and yields no object,
\* whenever tile_px or tile_um is not an int, the architecture or the loss is
\* unsupported, learning_rate is not a float, or L2_weight or dropout is
\* outside [0,1]; the sign of tile_px, tile_um and learning_rate is not checked.
C10_RejectsInvalid ==
    (/\ HPReturned
     /\ \/ ~ IsInt(hpArgs.tile_px)
        \/ ~ IsInt(hpArgs.tile_um)
        \/ hpArgs.model \notin ModelDict
        \/ hpArgs.loss \notin AllLoss
        \/ ~ IsFloat(hpArgs.learning_rate)
        \/ ~ InUnit(hpArgs.L2_weight)
        \/ ~ InUnit(hpArgs.dropout))
        => hpErr = "AssertionError" /\ hpObj = NoObject

C10_Witness ==
    /\ hpPc = "built"
    /\ hpArgs.dropout = I(2)
    /\ TypeAsserts(hpArgs)
    /\ InUnit(hpArgs.L2_weight)
    /\ hpErr = "AssertionError"

\* C28 as stated: after a successful construction followed by load_dict
\* calls, by-category balancing never coexists with a model_type() other
\* than categorical.
C28_Original ==
    (hpPc \in {"built", "loaded", "updated"} /\ hpErr = "none")
        => /\ validate(hpObj)
           /\ hpPc = "loaded" => validate(hpOther)

\* C30 as stated: every loss of the linear-loss set is accepted by the
\* constructor when neither balancing mode is by-category (the other
\* arguments at their defaults).
C30_Original ==
    (/\ hpPc = "built"
     /\ hpArgs.loss \in LinearLoss
     /\ hpArgs.balanced_training \in {NO_BALANCE, BALANCE_BY_PATIENT}
     /\ hpArgs.balanced_validation \in {NO_BALANCE, BALANCE_BY_PATIENT}
     /\ \A k \in ArgNames \ {"loss", "balanced_training", "balanced_validation"} :
            hpArgs[k] = Defaults[k])
        => hpErr = "none" /\ hpObj # NoObject

(***************************************************************************)
(* Further claims about the controller and the callback, under Spec.       *)
(***************************************************************************)
\* fit has been called: the warmup, if any, is over.
FitCalled == Training /\ pc \in {"batch", "epoch_end", "done"}

\* C21 as stated: the top-layer warmup runs if and only if toplayer_epochs > 0
\* and train() is not resuming; at the start of the first fine-tuning epoch
\* it has not advanced the epoch counter, written a checkpoint or fed the
\* monitor.
C21_Original ==
    FitCalled =>
        /\ hist.warmEpochs > 0
                <=> (hp.toplayer_epochs.n > 0 /\ ~ targs.resume_training)
        /\ (hist.fitEpochs = 0 /\ batch = 0)
                => /\ cb.epoch_count = targs.starting_epoch
                   /\ checkpoints = {}
                   /\ hist.obs = <<>>

\* C22 as stated: the monitor takes an observation at every validation
\* checkpoint: at each batch index that is a positive multiple of
\* validate_on_batch, and at each epoch boundary.
C22_Original ==
    [][/\ (pc = "batch" /\ CheckDue(targs, batch))
            => Len(hist'.obs) = Len(hist.obs) + 1
       /\ (pc = "epoch_end" /\ targs.using_validation)
            => Len(hist'.obs) = Len(hist.obs) + 1]_vars

\* The value the last check appended to the window.
Monitored == cb.moving_average[Len(cb.moving_average)]

\* C23 as stated: at each validation check the monitored value is the
\* validation accuracy when early_stop_method is accuracy and the model is
\* categorical, and the validation loss otherwise.
C23_Original ==
    (Training /\ hist.obs # <<>>) =>
        Monitored = IF hp.early_stop_method = "accuracy" /\ mdlClass = "categorical"
                    THEN R(hist.acc)
                    ELSE R(hist.obs[Len(hist.obs)])

\* C27 as stated: train() without validation shards does not fail; it runs
\* the fine-tuning epochs to completion with no validation check and no
\* early stop, writes a checkpoint at each configured epoch and returns
\* results without epoch entries.
C27_Original ==
    (~ targs.using_validation /\ model_type(hp.loss) = mdlClass)
        => /\ err \in {"none", "UserError"}
           /\ (Training /\ pc = "done")
                => /\ hist.obs = <<>>
                   /\ ~ cb.early_stop
                   /\ cb.results = {}
                   /\ checkpoints = CheckpointEpochs

\* The check made in this step computes the SMA or the EMA.
Computes ==
    /\ pc = "batch" /\ CheckDue(targs, batch)
    /\ ~ InvalidMetric
    /\ Len(cb.moving_average) >= targs.ema_observations

\* The check made in this step reaches the early-stop decision.
Qualifies ==
    /\ pc = "batch" /\ CheckDue(targs, batch)
    /\ ~ InvalidMetric
    /\ Truthy(hp.early_stop)
    /\ cb'.last_ema # MinusOne
    /\ PatienceMet(targs, hp, batch, cb.epoch_count)

\* C29 as stated: whenever the comparison is evaluated, ema_two_checks_prior
\* is the EMA computed exactly two checks before the current one; the two
\* snapshots shift by one on every qualifying check that does not trigger and
\* are unchanged by one that triggers; a computed EMA is never the
\* 'no snapshot yet' marker -1.
C29_Original ==
    [][/\ (Qualifies /\ cb.ema_two_checks_prior # MinusOne)
            => /\ Len(hist.ema) >= 2
               /\ cb.ema_two_checks_prior = hist.ema[Len(hist.ema) - 1]
       /\ (Qualifies /\ ~ cb'.early_stop)
            => /\ cb'.ema_two_checks_prior = cb.ema_one_check_prior
               /\ cb'.ema_one_check_prior = cb'.last_ema
       /\ (Qualifies /\ cb'.early_stop)
            => /\ cb'.ema_two_checks_prior = cb.ema_two_checks_prior
               /\ cb'.ema_one_check_prior = cb.ema_one_check_prior
       /\ Computes => cb'.last_ema # MinusOne]_vars

(***************************************************************************)
(* Claims about the assembly of the network, checked under SpecNet.        *)
(***************************************************************************)
\* C24 as stated: with trainable_layers = K from 1 to total_layers, exactly
\* the last K layers of the trunk are trainable and the others frozen, the
\* freeze index being total_layers - (K - 1).
C24_Original ==
    (/\ net.pc = "built"
     /\ net.trainable_layers \in 1..net.total_layers)
        => /\ net.model.trainable
                = (net.total_layers - net.trainable_layers + 1)..net.total_layers
           /\ FreezeIndex(net.total_layers, net.trainable_layers)
                = net.total_layers - (net.trainable_layers - 1)

\* Slide-level features are configured: for a survival model, features
\* beyond the event indicator.
SlideFeaturesConfigured ==
    IF net.cls = "cph" THEN net.num_slide_features > 1 ELSE net.num_slide_features > 0

\* C25 as stated: when slide-level features are configured and images are
\* not dropped, the network takes the slide-feature vector as an input and
\* concatenates it with the image branch before the hidden layers.
C25_Original ==
    (/\ net.pc \in {"built", "raised"}
     /\ SlideFeaturesConfigured
     /\ ~ net.drop_images /\ net.tile_px # 0)
        => /\ net.pc = "built"
           /\ "slide_feature_input" \in net.model.inputs
           /\ net.model.merged = {"slide_feature_input", "tile_image"}

(***************************************************************************)
(* Claims about the MIL widget, checked under SpecMIL.                     *)
(***************************************************************************)
\* C16 as stated: at most one background prediction thread of the widget
\* is alive at any time.
C16_Original == Cardinality(Alive) <= 1

\* C17 as stated: while a prediction thread runs, no step of
\* drag_and_drop_hook replaces the model handle (model, mil_config, encoder,
\* normalizer).
C17_Original == [][Alive # {} => Handle(widget') = Handle(widget)]_vars

\* Nothing is left to acknowledge: the generating flag and the thread handle
\* are cleared and every sticky toast has been dismissed.
Acknowledged ==
    /\ ~ widget._generating
    /\ widget._thread = 0
    /\ \A i \in DOMAIN toasts : toasts[i].sticky => toasts[i].done

\* C26 as stated: once the worker threads of the started predictions have
\* finished, render calls clear the generating flag and the thread handle and
\* dismiss every sticky 'Generating prediction' toast; no prediction stays
\* unacknowledged and no sticky toast stays open forever.
C26_Original == (threads # <<>> /\ Alive = {}) ~> Acknowledged

====
